---- MODULE Spec2Model ----
(***************************************************************************)
(* Model of the retirement calculator (src/main.py): the single-path       *)
(* simulator RetirementSimulation.simulate_single_retirement and the       *)
(* Monte Carlo orchestrator MonteCarloSimulation.                          *)
(*                                                                         *)
(* Numbers.  The program computes with Python floats (IEEE-754 binary,     *)
(* round to nearest, ties to even).  A float is modelled as <<m, e>>, the  *)
(* value m * 2^e, with m odd (or <<0, 0>> for zero) and |m| < 2^Prec.      *)
(* Every arithmetic operation computes the exact result and rounds it to   *)
(* Prec significant bits, as the hardware does with 53 bits.  Prec is a    *)
(* bound of the model: TLC evaluates 32-bit integers, so the significand   *)
(* is shorter than the program's.  Not modelled: the exponent range        *)
(* (overflow to inf, subnormals), NaN, and the sign of zero.               *)
(***************************************************************************)
EXTENDS Integers, Sequences, FiniteSets, TLC

\* ------------------------------------------------------------------------
\* Bounds of the model
\* ------------------------------------------------------------------------
Prec == 10

\* longest horizon of a trial followed period by period
MaxYears == 3

\* longest horizon and largest number of trials of a Monte Carlo run
MaxMCYears == 2

MaxSims == 3

\* rows sampled by bootstrap_returns (n_years, 30 in the source)
BootYears == 3

MaxFixedYears == 3

\* ------------------------------------------------------------------------
\* Floating-point arithmetic
\* ------------------------------------------------------------------------
\* Evaluation is by value throughout: the arithmetic operations are
\* functions, whose arguments are evaluated once when they are applied.
Abs(n) == IF n < 0 THEN -n ELSE n

Sgn(n) == IF n < 0 THEN -1 ELSE IF n > 0 THEN 1 ELSE 0

\* the value of expression v, bound once, in the body F
With(v, F(_)) == CHOOSE out \in {F(x) : x \in {v}} : TRUE

\* floats are pairs <<m, e>>
Num == Int \X Int

\* number of bits of n >= 0
BitLen[n \in Int] ==
    CHOOSE k \in 0 .. 30 : n < 2 ^ k /\ (k = 0 \/ n >= 2 ^ (k - 1))

\* number of trailing zero bits of m # 0
TrailingZeros[m \in Int] ==
    CHOOSE t \in 0 .. 30 : m % (2 ^ t) = 0 /\ m % (2 ^ (t + 1)) # 0

\* canonical form: strip the trailing zero bits of the significand
Norm[m \in Int, e \in Int] ==
    IF m = 0 THEN <<0, 0>>
    ELSE <<m \div (2 ^ TrailingZeros[m]), e + TrailingZeros[m]>>

\* q = floor(x), r > 0 iff x is not an integer, for an x in
\* [2^Prec, 2^(Prec+1)): drop the guard bit of q, ties to even
RoundGuard[q \in Int, r \in Int, e \in Int, sg \in Int] ==
    Norm[sg * ((q \div 2) +
               (IF q % 2 = 1 /\ (r > 0 \/ (q \div 2) % 2 = 1) THEN 1 ELSE 0)),
         e + 1]

\* the float nearest to sg * (n / d) * 2^e, for 2^Prec <= n / d < 2^(Prec+1)
RoundQuotient[n \in Int, d \in Int, e \in Int, sg \in Int] ==
    RoundGuard[n \div d, n % d, e, sg]

\* n / d scaled by 2^k, as a numerator and a denominator
ScaledNum(n, k) == IF k >= 0 THEN n * (2 ^ k) ELSE n

ScaledDen(d, k) == IF k >= 0 THEN d ELSE d * (2 ^ (-k))

\* k is such that 2^Prec < (n / d) * 2^k < 2^(Prec+2): one step less when
\* the quotient would have two guard bits
RoundShift[n \in Int, d \in Int, e \in Int, k \in Int, sg \in Int] ==
    IF ScaledNum(n, k) >= ScaledDen(d, k) * (2 ^ (Prec + 1))
    THEN RoundQuotient[ScaledNum(n, k - 1), ScaledDen(d, k - 1), e - k + 1, sg]
    ELSE RoundQuotient[ScaledNum(n, k), ScaledDen(d, k), e - k, sg]

\* the float nearest to (n / d) * 2^e, d > 0; ties to even
Rnd[n \in Int, d \in Int, e \in Int] ==
    IF n = 0 THEN <<0, 0>>
    ELSE RoundShift[Abs(n), d, e, Prec + 1 - BitLen[Abs(n)] + BitLen[d], Sgn(n)]

\* a decimal literal n/d of the source, e.g. 0.6 is Dec(6, 10)
Dec(n, d) == Rnd[n, d, 0]

\* an integer used as a float
Flt(n) == Rnd[n, 1, 0]

Zero == <<0, 0>>

One == <<1, 0>>

\* position of the leading bit of a
Top(a) == a[2] + BitLen[Abs(a[1])]

MinExp(a, b) == IF a[2] < b[2] THEN a[2] ELSE b[2]

\* the significand of a at exponent em <= a[2]
Aligned(a, em) == a[1] * (2 ^ (a[2] - em))

fneg[a \in Num] == <<-a[1], a[2]>>

fmul[a \in Num, b \in Num] == Rnd[a[1] * b[1], 1, a[2] + b[2]]

\* Python raises ZeroDivisionError for b = 0; the callers guard it
fdiv[a \in Num, b \in Num] == Rnd[Sgn(b[1]) * a[1], Abs(b[1]), a[2] - b[2]]

fadd[a \in Num, b \in Num] ==
    IF a[1] = 0 THEN b
    ELSE IF b[1] = 0 THEN a
    ELSE IF Top(b) <= Top(a) - Prec - 2 THEN a
    ELSE IF Top(a) <= Top(b) - Prec - 2 THEN b
    ELSE Rnd[Aligned(a, MinExp(a, b)) + Aligned(b, MinExp(a, b)), 1, MinExp(a, b)]

fsub[a \in Num, b \in Num] == fadd[a, fneg[b]]

\* exact comparisons
FSign(a) == Sgn(a[1])

FLess[a \in Num, b \in Num] ==
    IF FSign(a) # FSign(b) THEN FSign(a) < FSign(b)
    ELSE IF FSign(a) = 0 THEN FALSE
    ELSE IF Top(a) # Top(b) THEN (FSign(a) > 0) = (Top(a) < Top(b))
    ELSE Aligned(a, MinExp(a, b)) < Aligned(b, MinExp(a, b))

FLeq[a \in Num, b \in Num] == a = b \/ FLess[a, b]

\* Python's max(0, x)
Max0[x \in Num] == IF FSign(x) > 0 THEN x ELSE Zero

\* ------------------------------------------------------------------------
\* Parameters (the params dict) and the return model
\* ------------------------------------------------------------------------
\* the params of main(), in thousands of dollars
BaseParams ==
    [starting_portfolio |-> Flt(750),
     annual_spending |-> Flt(50),
     target_allocation |->
         [stocks |-> Dec(6, 10), bonds |-> Dec(3, 10), cash |-> Dec(1, 10)],
     retirement_age |-> 50,
     simulation_years |-> 40,
     enable_parttime_income |-> TRUE,
     parttime_max_age |-> 65,
     parttime_withdrawal_rate_threshold |-> Dec(75, 1000),
     parttime_annual_income |-> Flt(25),
     ss_start_age |-> 67,
     ss_annual_benefit |-> Flt(15)]

\* weights that are exact in binary, and a portfolio of stocks only
BinaryAllocation ==
    [stocks |-> Dec(1, 2), bonds |-> Dec(1, 4), cash |-> Dec(1, 4)]

StocksOnly == [stocks |-> One, bonds |-> Zero, cash |-> Zero]

\* parameter sets a caller can pass: __init__ stores any dict unchecked
Scenarios ==
    { BaseParams,
      [BaseParams EXCEPT !.retirement_age = 64, !.annual_spending = Flt(60)],
      [BaseParams EXCEPT !.retirement_age = 66],
      [BaseParams EXCEPT !.retirement_age = 66, !.annual_spending = Flt(10)],
      [BaseParams EXCEPT !.annual_spending = Zero,
                         !.enable_parttime_income = FALSE],
      [BaseParams EXCEPT !.starting_portfolio = One,
                         !.annual_spending = Zero,
                         !.enable_parttime_income = FALSE],
      [BaseParams EXCEPT !.annual_spending = Zero,
                         !.enable_parttime_income = FALSE,
                         !.target_allocation = BinaryAllocation],
      [BaseParams EXCEPT !.starting_portfolio = Flt(100),
                         !.annual_spending = Flt(1000),
                         !.enable_parttime_income = FALSE],
      [BaseParams EXCEPT !.starting_portfolio = Flt(100),
                         !.annual_spending = Flt(100),
                         !.enable_parttime_income = FALSE,
                         !.target_allocation = BinaryAllocation],
      [BaseParams EXCEPT !.starting_portfolio = Flt(100),
                         !.annual_spending = Flt(60),
                         !.enable_parttime_income = FALSE,
                         !.target_allocation = StocksOnly],
      [BaseParams EXCEPT !.starting_portfolio = Flt(100),
                         !.parttime_withdrawal_rate_threshold = Dec(1, 2),
                         !.target_allocation = BinaryAllocation],
      [BaseParams EXCEPT !.target_allocation =
          [stocks |-> Dec(5, 10), bonds |-> Dec(3, 10), cash |-> Dec(1, 10)]] }

YearsChoices == -1 .. MaxYears

ParamSets ==
    { [sc EXCEPT !.simulation_years = n] : sc \in Scenarios, n \in YearsChoices }

\* rows [stocks, bonds, cash, inflation] that generate_annual_returns can
\* return: the means, a flat year, a total loss and a stock return of -110%
\* (the multivariate normal has the whole of R^4 as support)
MeanDraw == <<Dec(1, 10), Dec(4, 100), Dec(25, 1000), Dec(25, 1000)>>

ZeroDraw == <<Zero, Zero, Zero, Zero>>

WipeDraw == <<Flt(-1), Flt(-1), Flt(-1), Zero>>

FlipDraw == <<Dec(-11, 10), Zero, Zero, Zero>>

Draws == {MeanDraw, ZeroDraw, WipeDraw, FlipDraw}

\* Portfolio.__init__: the configuration of the return model
Volatilities == <<Dec(18, 100), Dec(6, 100), Dec(5, 1000), Dec(25, 1000)>>

Correlations ==
    << <<One, Dec(-1, 10), Zero, Dec(2, 10)>>,
       <<Dec(-1, 10), One, Zero, Dec(-3, 10)>>,
       <<Zero, Zero, One, Dec(9, 10)>>,
       <<Dec(2, 10), Dec(-3, 10), Dec(9, 10), One>> >>

NewPortfolio ==
    [mean_vector |-> MeanDraw,
     volatilities |-> Volatilities,
     correlations |-> Correlations,
     covariance_matrix |->
         [i \in 1 .. 4 |-> [j \in 1 .. 4 |->
             fmul[Correlations[i][j],
                  fmul[Volatilities[i], Volatilities[j]]]]]]

\* the rows drawn in the trials of a Monte Carlo run
MCDraws == {MeanDraw, WipeDraw}

\* the parameter sets of the Monte Carlo runs
MCScenarios ==
    { BaseParams,
      [BaseParams EXCEPT !.annual_spending = Flt(55)],
      [BaseParams EXCEPT !.starting_portfolio = Flt(100),
                         !.annual_spending = Flt(100),
                         !.enable_parttime_income = FALSE,
                         !.target_allocation = BinaryAllocation] }

MCParamSets ==
    { [sc EXCEPT !.simulation_years = n] : sc \in MCScenarios,
                                           n \in 0 .. MaxMCYears }

\* ------------------------------------------------------------------------
\* RetirementSimulation.simulate_single_retirement
\* ------------------------------------------------------------------------
EmptyResults ==
    [years |-> <<>>, ages |-> <<>>,
     portfolio_values_start |-> <<>>, portfolio_values_end |-> <<>>,
     spending_need |-> <<>>, parttime_income |-> <<>>, ss_income |-> <<>>,
     net_withdrawals |-> <<>>, withdrawal_rates |-> <<>>,
     inflation_rates |-> <<>>,
     stocks_values |-> <<>>, bonds_values |-> <<>>, cash_values |-> <<>>,
     success |-> TRUE]

\* a copy-paste slip: the bonds balance takes the stocks weight
InitialFrameStocksWeightTwice(p) ==
    LET total_portfolio == p.starting_portfolio
    IN  [year |-> 0,
         stocks_value |-> fmul[total_portfolio, p.target_allocation.stocks],
         bonds_value |-> fmul[total_portfolio, p.target_allocation.stocks],
         cash_value |-> fmul[total_portfolio, p.target_allocation.cash],
         cumulative_inflation |-> One,
         after_withdrawal |-> <<Zero, Zero, Zero>>,
         results |-> EmptyResults]

\* the locals before the loop: empty results, balances at target allocation
InitialFrame(p) ==
    LET total_portfolio == p.starting_portfolio
    IN  [year |-> 0,
         stocks_value |-> fmul[total_portfolio, p.target_allocation.stocks],
         bonds_value |-> fmul[total_portfolio, p.target_allocation.bonds],
         cash_value |-> fmul[total_portfolio, p.target_allocation.cash],
         cumulative_inflation |-> One,
         after_withdrawal |-> <<Zero, Zero, Zero>>,
         results |-> EmptyResults]

\* a loop that stops at depletion
LoopContinuesUntilDepleted(p, s) ==
    s.year < p.simulation_years /\ s.results.success

\* for year in range(simulation_years)
LoopContinues(p, s) == s.year < p.simulation_years

\* a slip: the benefit starts the year after ss_start_age (> for >=)
SSIncomeAfterStartAge(p, age, cumulative_inflation) ==
    IF age > p.ss_start_age
    THEN fmul[p.ss_annual_benefit, cumulative_inflation]
    ELSE Zero

\* step 2: the Social-Security income of the period
SSIncome(p, age, cumulative_inflation) ==
    IF age >= p.ss_start_age
    THEN fmul[p.ss_annual_benefit, cumulative_inflation]
    ELSE Zero

\* a slip: a rate equal to the threshold trips the trigger (>= for >)
PartTimeIncomeAtThreshold(p, age, current_portfolio, preliminary_withdrawal, cumulative_inflation) ==
    IF /\ p.enable_parttime_income
       /\ age <= p.parttime_max_age
       /\ FSign(current_portfolio) > 0
       /\ FLeq[p.parttime_withdrawal_rate_threshold,
               fdiv[preliminary_withdrawal, current_portfolio]]
    THEN fmul[p.parttime_annual_income, cumulative_inflation]
    ELSE Zero

\* step 4: the part-time income of the period, 0 unless the projected
\* withdrawal rate exceeds the threshold
PartTimeIncome(p, age, current_portfolio, preliminary_withdrawal, cumulative_inflation) ==
    IF /\ p.enable_parttime_income
       /\ age <= p.parttime_max_age
       /\ FSign(current_portfolio) > 0
       /\ FLess[p.parttime_withdrawal_rate_threshold,
                fdiv[preliminary_withdrawal, current_portfolio]]
    THEN fmul[p.parttime_annual_income, cumulative_inflation]
    ELSE Zero

\* a slip: the net withdrawal is not floored at 0
NetWithdrawalUnclamped(inflation_adjusted_spending, ss_income, parttime_income) ==
    fsub[fsub[inflation_adjusted_spending, ss_income], parttime_income]

\* step 5: max(0, inflation_adjusted_spending - ss_income - parttime_income)
NetWithdrawal(inflation_adjusted_spending, ss_income, parttime_income) ==
    Max0[fsub[fsub[inflation_adjusted_spending, ss_income], parttime_income]]

\* a slip: the period's inflation is compounded twice
CompoundInflationTwice(cumulative_inflation, inflation_rate) ==
    fmul[fmul[cumulative_inflation, fadd[One, inflation_rate]],
         fadd[One, inflation_rate]]

\* cumulative_inflation *= 1 + inflation_rate
CompoundInflation(cumulative_inflation, inflation_rate) ==
    fmul[cumulative_inflation, fadd[One, inflation_rate]]

\* a guard against division by zero only (!= 0 instead of > 0)
WithdrawalRateNonZeroGuard(net_withdrawal, current_portfolio) ==
    IF FSign(current_portfolio) # 0
    THEN fdiv[net_withdrawal, current_portfolio]
    ELSE Zero

WithdrawalRate(net_withdrawal, current_portfolio) ==
    IF FSign(current_portfolio) > 0
    THEN fdiv[net_withdrawal, current_portfolio]
    ELSE Zero

\* a slip: the withdrawal is taken in equal parts from the three balances
WithdrawEqualParts(value, net_withdrawal, current_portfolio) ==
    IF FSign(current_portfolio) > 0 /\ FSign(net_withdrawal) > 0
    THEN fsub[value, fdiv[net_withdrawal, Flt(3)]]
    ELSE value

\* one balance after the proportional withdrawal (step 6)
Withdraw(value, net_withdrawal, current_portfolio) ==
    IF FSign(current_portfolio) > 0 /\ FSign(net_withdrawal) > 0
    THEN fmul[value, fsub[One, fdiv[net_withdrawal, current_portfolio]]]
    ELSE value

\* rebalancing against the stocks weight of main() whatever the class
RebalanceFixedWeight(current_portfolio, weight) ==
    fmul[current_portfolio, Dec(6, 10)]

\* one balance after the rebalancing (step 9)
Rebalance(current_portfolio, weight) == fmul[current_portfolio, weight]

\* the flag recomputed every period from the current value
SuccessAfterRecomputed(success, current_portfolio) ==
    FSign(current_portfolio) > 0

\* the success flag after a period that ended with current_portfolio
SuccessAfter(success, current_portfolio) ==
    IF FSign(current_portfolio) <= 0 /\ success THEN FALSE ELSE success

\* the record of a period appended to the result series
Recorded1(res, year, age, current_portfolio, end_portfolio, inflation_adjusted_spending, parttime_income, ss_income, net_withdrawal, actual_withdrawal_rate, inflation_rate, stocks_value, bonds_value, cash_value) ==
    [years |-> Append(res.years, year),
     ages |-> Append(res.ages, age),
     portfolio_values_start |->
         Append(res.portfolio_values_start, current_portfolio),
     portfolio_values_end |-> Append(res.portfolio_values_end, end_portfolio),
     spending_need |-> Append(res.spending_need, inflation_adjusted_spending),
     parttime_income |-> Append(res.parttime_income, parttime_income),
     ss_income |-> Append(res.ss_income, ss_income),
     net_withdrawals |-> Append(res.net_withdrawals, net_withdrawal),
     withdrawal_rates |-> Append(res.withdrawal_rates, actual_withdrawal_rate),
     inflation_rates |-> Append(res.inflation_rates, inflation_rate),
     stocks_values |-> Append(res.stocks_values, stocks_value),
     bonds_values |-> Append(res.bonds_values, bonds_value),
     cash_values |-> Append(res.cash_values, cash_value),
     success |-> SuccessAfter(res.success, end_portfolio)]

\* the body of the loop for the year s.year, with the row r of returns
\* [stocks, bonds, cash, inflation]; each With binds one local of the code.
\* after_withdrawal keeps the three balances as they stand after step 6
LoopBody(p, s, r) ==
    With(p.retirement_age + s.year, LAMBDA age :
    With(fadd[fadd[s.stocks_value, s.bonds_value], s.cash_value],
         LAMBDA current_portfolio :
    With(fmul[p.annual_spending, s.cumulative_inflation],
         LAMBDA inflation_adjusted_spending :
    With(SSIncome(p, age, s.cumulative_inflation), LAMBDA ss_income :
    With(Max0[fsub[inflation_adjusted_spending, ss_income]],
         LAMBDA preliminary_withdrawal :
    With(PartTimeIncome(p, age, current_portfolio, preliminary_withdrawal,
                        s.cumulative_inflation),
         LAMBDA parttime_income :
    With(NetWithdrawal(inflation_adjusted_spending, ss_income,
                       parttime_income),
         LAMBDA net_withdrawal :
    With(<<Withdraw(s.stocks_value, net_withdrawal, current_portfolio),
           Withdraw(s.bonds_value, net_withdrawal, current_portfolio),
           Withdraw(s.cash_value, net_withdrawal, current_portfolio)>>,
         LAMBDA after_withdrawal :
    With(fadd[fadd[fmul[after_withdrawal[1], fadd[One, r[1]]],
                   fmul[after_withdrawal[2], fadd[One, r[2]]]],
              fmul[after_withdrawal[3], fadd[One, r[3]]]],
         LAMBDA end_portfolio :
    With(Rebalance(end_portfolio, p.target_allocation.stocks),
         LAMBDA stocks_value :
    With(Rebalance(end_portfolio, p.target_allocation.bonds),
         LAMBDA bonds_value :
    With(Rebalance(end_portfolio, p.target_allocation.cash),
         LAMBDA cash_value :
        [year |-> s.year + 1,
         stocks_value |-> stocks_value,
         bonds_value |-> bonds_value,
         cash_value |-> cash_value,
         cumulative_inflation |->
             CompoundInflation(s.cumulative_inflation, r[4]),
         after_withdrawal |-> after_withdrawal,
         results |->
             Recorded1(s.results, s.year, age, current_portfolio,
                       end_portfolio, inflation_adjusted_spending,
                       parttime_income, ss_income, net_withdrawal,
                       WithdrawalRate(net_withdrawal, current_portfolio),
                       r[4], stocks_value, bonds_value, cash_value)]
    ))))))))))))

\* the whole call: the loop run to its end over the rows drawn
RECURSIVE Simulate(_, _, _)
Simulate(p, s, rows) ==
    IF LoopContinues(p, s)
    THEN With(LoopBody(p, s, rows[s.year + 1]),
              LAMBDA s2 : Simulate(p, s2, rows))
    ELSE s

simulate_single_retirement(p, rows) ==
    Simulate(p, InitialFrame(p), rows).results

\* ------------------------------------------------------------------------
\* MonteCarloSimulation._compute_summary
\* ------------------------------------------------------------------------
\* a slip: the trials that failed are counted
SuccessesCountsFailures(all_simulations) ==
    Cardinality({i \in 1 .. Len(all_simulations) :
                    ~all_simulations[i].success})

\* sum(1 for sim in all_simulations if sim["success"])
Successes(all_simulations) ==
    Cardinality({i \in 1 .. Len(all_simulations) : all_simulations[i].success})

\* a slip: every period with an income >= 0 is counted
YearsWorkingCountsAll(result) ==
    Cardinality({t \in 1 .. Len(result.parttime_income) :
                    FSign(result.parttime_income[t]) >= 0})

\* sum(1 for income in sim["parttime_income"] if income > 0)
YearsWorking(result) ==
    Cardinality({t \in 1 .. Len(result.parttime_income) :
                    FSign(result.parttime_income[t]) > 0})

\* Python's None, and a value that is present
None == <<>>

Some(x) == <<x>>

\* the k-th smallest of the floats of the sequence s (sorted(s)[k - 1])
KthSmallest(s, k) ==
    CHOOSE v \in {s[i] : i \in DOMAIN s} :
        /\ Cardinality({i \in DOMAIN s : FLess[s[i], v]}) < k
        /\ k <= Cardinality({i \in DOMAIN s : FLeq[s[i], v]})

\* the floats of s added from left to right, as np.mean adds a short array
FSum[s \in Seq(Num)] ==
    IF s = <<>> THEN Zero
    ELSE fadd[FSum[SubSeq(s, 1, Len(s) - 1)], s[Len(s)]]

\* np.mean of a non-empty sequence of floats
FMean(s) == fdiv[FSum[s], Flt(Len(s))]

\* np.median of a non-empty sequence of floats: the mean of the middle
\* element, or of the two middle elements, of the sorted sequence
FMedian(s) ==
    IF Len(s) % 2 = 1
    THEN FMean(<<KthSmallest(s, (Len(s) + 1) \div 2)>>)
    ELSE FMean(<<KthSmallest(s, Len(s) \div 2),
                 KthSmallest(s, Len(s) \div 2 + 1)>>)

\* floor of a float, as an integer
Floor(a) == IF a[2] >= 0 THEN a[1] * (2 ^ a[2]) ELSE a[1] \div (2 ^ (-a[2]))

\* a slip: the interpolation weight is applied from the upper value
LerpReversed(a, b, t) == fadd[b, fmul[fsub[a, b], t]]

\* NumPy's linear interpolation between a and b with weight t in [0, 1):
\* a + (b - a) * t, computed from b's side when t >= 0.5
Lerp(a, b, t) ==
    IF FLeq[Dec(1, 2), t]
    THEN fsub[b, fmul[fsub[b, a], fsub[One, t]]]
    ELSE fadd[a, fmul[fsub[b, a], t]]

\* np.percentile(values, q), method 'linear', 0 < q < 100: the virtual index
\* (n - 1) * (q / 100) is split into the index below and the weight gamma
PercentileAt(s, virtual_index) ==
    IF Floor(virtual_index) >= Len(s) - 1
    THEN KthSmallest(s, Len(s))
    ELSE Lerp(KthSmallest(s, Floor(virtual_index) + 1),
              KthSmallest(s, Floor(virtual_index) + 2),
              fsub[virtual_index, Flt(Floor(virtual_index))])

Percentile(s, q) ==
    PercentileAt(s, fmul[Flt(Len(s) - 1), fdiv[Flt(q), Flt(100)]])

\* values_this_year for the index year (from 1) of the series
ValuesThisYear(all_simulations, year) ==
    [i \in 1 .. Len(all_simulations) |->
        all_simulations[i].portfolio_values_end[year]]

\* summary["portfolio_over_time"]: one entry per year of each band
PortfolioOverTime(all_simulations, n_years) ==
    [median |-> [year \in 1 .. n_years |->
                    FMedian(ValuesThisYear(all_simulations, year))],
     p10 |-> [year \in 1 .. n_years |->
                 Percentile(ValuesThisYear(all_simulations, year), 10)],
     p25 |-> [year \in 1 .. n_years |->
                 Percentile(ValuesThisYear(all_simulations, year), 25)],
     p75 |-> [year \in 1 .. n_years |->
                 Percentile(ValuesThisYear(all_simulations, year), 75)],
     p90 |-> [year \in 1 .. n_years |->
                 Percentile(ValuesThisYear(all_simulations, year), 90)]]

\* the trials for which the loop over portfolio_values_end appends an age:
\* not successful, and with some value <= 0
Depleting(all_simulations) ==
    {i \in 1 .. Len(all_simulations) :
        /\ ~all_simulations[i].success
        /\ \E t \in 1 .. Len(all_simulations[i].portfolio_values_end) :
              FSign(all_simulations[i].portfolio_values_end[t]) <= 0}

\* a slip: the age of the last period with value <= 0 (no break)
DepletionAgeOfLast(result) ==
    result.ages[CHOOSE t \in 1 .. Len(result.portfolio_values_end) :
        /\ FSign(result.portfolio_values_end[t]) <= 0
        /\ \A u \in t + 1 .. Len(result.portfolio_values_end) :
              FSign(result.portfolio_values_end[u]) > 0]

\* sim["ages"][i] for the first i with value <= 0, then break
DepletionAgeOf(result) ==
    result.ages[CHOOSE t \in 1 .. Len(result.portfolio_values_end) :
        /\ FSign(result.portfolio_values_end[t]) <= 0
        /\ \A u \in 1 .. t - 1 :
              FSign(result.portfolio_values_end[u]) > 0]

\* the list depletion_ages, in the order of the trials
DepletionAges(all_simulations) ==
    [k \in 1 .. Cardinality(Depleting(all_simulations)) |->
        DepletionAgeOf(all_simulations[
            CHOOSE i \in Depleting(all_simulations) :
                Cardinality({j \in Depleting(all_simulations) : j <= i}) = k])]

\* a slip: the statistics of an empty list are 0
DepletionAgeZeroFilled(depletion_ages) ==
    IF depletion_ages # <<>>
    THEN [median |-> Some(FMedian([k \in DOMAIN depletion_ages |->
                                      Flt(depletion_ages[k])])),
          mean |-> Some(FMean([k \in DOMAIN depletion_ages |->
                                  Flt(depletion_ages[k])])),
          earliest |-> Some(CHOOSE a \in {depletion_ages[k] :
                                             k \in DOMAIN depletion_ages} :
                               \A k \in DOMAIN depletion_ages :
                                   a <= depletion_ages[k])]
    ELSE [median |-> Some(Zero), mean |-> Some(Zero), earliest |-> Some(0)]

\* summary["depletion_age"]: np.median, np.mean and min of depletion_ages
\* if the list is not empty, else None
DepletionAge(depletion_ages) ==
    IF depletion_ages # <<>>
    THEN [median |-> Some(FMedian([k \in DOMAIN depletion_ages |->
                                      Flt(depletion_ages[k])])),
          mean |-> Some(FMean([k \in DOMAIN depletion_ages |->
                                  Flt(depletion_ages[k])])),
          earliest |-> Some(CHOOSE a \in {depletion_ages[k] :
                                             k \in DOMAIN depletion_ages} :
                               \A k \in DOMAIN depletion_ages :
                                   a <= depletion_ages[k])]
    ELSE [median |-> None, mean |-> None, earliest |-> None]

\* the list years_working, one count per trial
YearsWorkingList(all_simulations) ==
    [i \in 1 .. Len(all_simulations) |-> YearsWorking(all_simulations[i])]

\* sum(1 for years in years_working if years > 0) / n_sims
ProbAnyWork(years_working) ==
    Rnd[Cardinality({i \in DOMAIN years_working : years_working[i] > 0}),
        Len(years_working), 0]

\* summary["years_working"]: np.median, np.mean, max and the 90th
\* percentile of the counts
YearsWorkingStats(years_working) ==
    [median |-> FMedian([i \in DOMAIN years_working |-> Flt(years_working[i])]),
     mean |-> FMean([i \in DOMAIN years_working |-> Flt(years_working[i])]),
     max |-> CHOOSE y \in {years_working[i] : i \in DOMAIN years_working} :
                 \A i \in DOMAIN years_working : years_working[i] <= y,
     p90 |-> Percentile([i \in DOMAIN years_working |->
                            Flt(years_working[i])], 90)]

\* the summary dict, for n_sims > 0 trials of n_years > 0 periods each
ComputeSummary(all_simulations, n_years) ==
    With(Len(all_simulations), LAMBDA n_sims :
    With(Rnd[Successes(all_simulations), n_sims, 0], LAMBDA success_rate :
        [n_simulations |-> n_sims,
         success_rate |-> success_rate,
         failure_rate |-> fsub[One, success_rate],
         years_working |->
             YearsWorkingStats(YearsWorkingList(all_simulations)),
         prob_any_parttime_work |->
             ProbAnyWork(YearsWorkingList(all_simulations)),
         portfolio_over_time |-> PortfolioOverTime(all_simulations, n_years),
         depletion_age |-> DepletionAge(DepletionAges(all_simulations))]
    ))

NoSummary ==
    [n_simulations |-> 0, success_rate |-> Zero, failure_rate |-> Zero,
     years_working |->
         [median |-> Zero, mean |-> Zero, max |-> 0, p90 |-> Zero],
     prob_any_parttime_work |-> Zero,
     portfolio_over_time |->
         [median |-> <<>>, p10 |-> <<>>, p25 |-> <<>>, p75 |-> <<>>,
          p90 |-> <<>>],
     depletion_age |-> [median |-> None, mean |-> None, earliest |-> None]]

\* ------------------------------------------------------------------------
\* Historical data: the CSV file, HistoricalDataService and the bootstrap
\* return model
\* ------------------------------------------------------------------------
\* a missing value of a table (NaN)
NaN == <<0, 0, 0>>

CsvRow(year, stocks, bond_yield, rate, cpi) ==
    [year |-> year,
     return_on_s_and_p_composite |-> stocks,
     long_government_bond_yield |-> bond_yield,
     one_year_interest_rate |-> rate,
     consumer_price_index |-> cpi]

\* files shiller.csv, rows in the order of the years: four full years; a
\* year without a one-year rate; a single year; years around 2012; no rows;
\* no file
CsvFiles ==
    { [exists |-> TRUE, rows |->
          << CsvRow(1871, Dec(10, 100), Flt(5), Flt(4), Flt(10)),
             CsvRow(1872, Dec(-5, 100), Flt(4), Flt(3), Flt(11)),
             CsvRow(1873, Dec(20, 100), Flt(3), Flt(2), Flt(11)),
             CsvRow(1874, Dec(7, 100), Flt(6), Flt(5), Flt(12)) >>],
      [exists |-> TRUE, rows |->
          << CsvRow(1871, Dec(10, 100), Flt(5), Flt(4), Flt(10)),
             CsvRow(1872, Dec(-5, 100), Flt(4), Flt(3), Flt(11)),
             CsvRow(1873, Dec(20, 100), Flt(3), NaN, Flt(11)),
             CsvRow(1874, Dec(7, 100), Flt(6), Flt(5), Flt(12)) >>],
      [exists |-> TRUE, rows |->
          << CsvRow(1871, Dec(10, 100), Flt(5), Flt(4), Flt(10)) >>],
      [exists |-> TRUE, rows |->
          << CsvRow(2011, Dec(2, 100), Flt(3), Flt(1), Flt(20)),
             CsvRow(2012, Dec(16, 100), Flt(2), Flt(1), Flt(21)),
             CsvRow(2013, Dec(32, 100), Flt(2), Flt(1), Flt(22)) >>],
      [exists |-> TRUE, rows |-> <<>>],
      [exists |-> FALSE, rows |-> <<>>] }

\* Series.pct_change: cur / prev - 1, NaN for the first row
PctChange(rows, k) ==
    IF k = 1 THEN NaN
    ELSE fsub[fdiv[rows[k].consumer_price_index,
                   rows[k - 1].consumer_price_index], One]

\* x / 100 of a column, NaN staying NaN
Percent(x) == IF x = NaN THEN NaN ELSE fdiv[x, Flt(100)]

HasNoNaN(r) ==
    /\ r.stocks # NaN
    /\ r.bonds # NaN
    /\ r.cash # NaN
    /\ r.inflation # NaN

\* a slip: the missing inflation of the first row is filled with 0
LoadDataFillsFirst(rows) ==
    SelectSeq([k \in 1 .. Len(rows) |->
                  [year |-> rows[k].year,
                   stocks |-> rows[k].return_on_s_and_p_composite,
                   bonds |-> Percent(rows[k].long_government_bond_yield),
                   cash |-> Percent(rows[k].one_year_interest_rate),
                   inflation |-> IF k = 1 THEN Zero ELSE PctChange(rows, k)]],
              HasNoNaN)

\* HistoricalDataService._load_data: the return columns, then dropna
LoadData(rows) ==
    SelectSeq([k \in 1 .. Len(rows) |->
                  [year |-> rows[k].year,
                   stocks |-> rows[k].return_on_s_and_p_composite,
                   bonds |-> Percent(rows[k].long_government_bond_yield),
                   cash |-> Percent(rows[k].one_year_interest_rate),
                   inflation |-> PctChange(rows, k)]],
              HasNoNaN)

\* Python's truth value of an Optional[int]: None and 0 are false
Truthy(o) == o # None /\ o[1] # 0

AtLeast(r, start_year) == ~Truthy(start_year) \/ r.year >= start_year[1]

AtMost(r, end_year) == ~Truthy(end_year) \/ r.year <= end_year[1]

\* a slip: the filter on end_year is not applied
FilteredFromStart(df, start_year, end_year) ==
    SelectSeq(df, LAMBDA r : AtLeast(r, start_year))

\* the rows of df left by the two filters of get_returns
Filtered(df, start_year, end_year) ==
    SelectSeq(df, LAMBDA r : AtLeast(r, start_year) /\ AtMost(r, end_year))

MinYear(df) ==
    CHOOSE y \in {df[k].year : k \in DOMAIN df} :
        \A k \in DOMAIN df : y <= df[k].year

MaxYear(df) ==
    CHOOSE y \in {df[k].year : k \in DOMAIN df} :
        \A k \in DOMAIN df : y >= df[k].year

AllAssets == {"stocks", "bonds", "cash", "inflation"}

\* HistoricalReturnData(**row): the columns asked for, None for the others
ReturnData(r, assets) ==
    [year |-> r.year,
     stocks |-> IF "stocks" \in assets THEN Some(r.stocks) ELSE None,
     bonds |-> IF "bonds" \in assets THEN Some(r.bonds) ELSE None,
     cash |-> IF "cash" \in assets THEN Some(r.cash) ELSE None,
     inflation |-> IF "inflation" \in assets THEN Some(r.inflation) ELSE None]

NoResponse ==
    [status |-> "none", data |-> <<>>, count |-> 0, start_year |-> 0,
     end_year |-> 0]

\* int(df["year"].min()) of an empty table: int(nan) raises ValueError
ValueErrorResponse == [NoResponse EXCEPT !.status = "ValueError"]

\* the request is refused by the validation of the query parameters
ValidationErrorResponse == [NoResponse EXCEPT !.status = "422"]

\* HistoricalDataService.get_returns; an empty set of assets is falsy
GetReturns(df, start_year, end_year, assets) ==
    IF Filtered(df, start_year, end_year) = <<>>
    THEN ValueErrorResponse
    ELSE [status |-> "ok",
          data |-> [k \in 1 .. Len(Filtered(df, start_year, end_year)) |->
                       ReturnData(Filtered(df, start_year, end_year)[k],
                                  IF assets = {} THEN AllAssets ELSE assets)],
          count |-> Len(Filtered(df, start_year, end_year)),
          start_year |-> MinYear(Filtered(df, start_year, end_year)),
          end_year |-> MaxYear(Filtered(df, start_year, end_year))]

\* Query(None, ge=1871, le=2024)
ValidYear(o) == o = None \/ (o[1] >= 1871 /\ o[1] <= 2024)

\* the rows of the file with year <= 2012
Until2012(rows) == SelectSeq(rows, LAMBDA r : r.year <= 2012)

\* models/historical_bootstrap.py, load_historical_data: real returns, the
\* inflation of the first row being filled with 0
LoadHistoricalData(rows) ==
    [k \in 1 .. Len(Until2012(rows)) |->
        With(IF k = 1 THEN Zero ELSE PctChange(Until2012(rows), k),
             LAMBDA inflation :
        <<fsub[Until2012(rows)[k].return_on_s_and_p_composite, inflation],
          fsub[Percent(Until2012(rows)[k].long_government_bond_yield),
               inflation]>>)]

\* historical_bootstrap.py, load_historical_data: the two columns as read
LoadHistoricalDataNominal(rows) ==
    [k \in 1 .. Len(Until2012(rows)) |->
        <<Until2012(rows)[k].return_on_s_and_p_composite,
          Until2012(rows)[k].long_government_bond_yield>>]

\* a slip: the two columns are sampled separately
SampleColumns(historical_data, picks) ==
    [k \in DOMAIN picks |->
        <<historical_data[picks[k]][1],
          historical_data[picks[Len(picks) + 1 - k]][2]>>]

\* DataFrame.sample(n, replace=True).values: the rows at the places picked
Sample(historical_data, picks) ==
    [k \in DOMAIN picks |-> historical_data[picks[k]]]

\* ------------------------------------------------------------------------
\* State
\* ------------------------------------------------------------------------
\* params: the dict held by the simulation; pc: where the call of
\* simulate_single_retirement stands; sim: its locals; drawn: the rows that
\* generate_annual_returns has returned to it, in order;
\* mc_pc: where MonteCarloSimulation.run stands; n_simulations: its argument;
\* all_simulations: the results collected; summary: the summary returned
\* portfolio: the Portfolio instance shared by the trials
VARIABLES params, portfolio, pc, sim, drawn, mc_pc, n_simulations, all_simulations, summary

\* csv: the file shiller.csv; svc_pc: where the HistoricalDataService
\* stands; df: its table; query, response: the last request and its answer;
\* boot_pc: the outcome of the last call of bootstrap_returns;
\* historical_data: the table it sampled from; sampled_data: its result
VARIABLES csv, svc_pc, df, query, response, boot_pc, historical_data, sampled_data

\* the locals of Simulation.run: fixed_pc is where the call stands, the
\* loop index i is Len(portfolio_values)
VARIABLES fixed_pc, all_returns, portfolio_value, portfolio_values, success, year_failed

trial_vars == <<pc, sim, drawn>>

mc_vars == <<mc_pc, n_simulations, all_simulations, summary>>

sim_vars == <<params, portfolio, pc, sim, drawn, mc_pc, n_simulations, all_simulations, summary>>

hist_vars == <<csv, svc_pc, df, query, response, boot_pc, historical_data, sampled_data>>

fixed_vars == <<fixed_pc, all_returns, portfolio_value, portfolio_values, success, year_failed>>

vars == <<sim_vars, hist_vars, fixed_vars>>

NoQuery == [start_year |-> None, end_year |-> None, assets |-> {}, via |-> "none"]

\* no file is read by the simulations of main.py
HistIdle ==
    /\ csv = [exists |-> FALSE, rows |-> <<>>]
    /\ svc_pc = "idle"
    /\ df = <<>>
    /\ query = NoQuery
    /\ response = NoResponse
    /\ boot_pc = "idle"
    /\ historical_data = <<>>
    /\ sampled_data = <<>>

\* no fixed-withdrawal simulation is run by main.py or by the API
FixedIdle ==
    /\ fixed_pc = "idle"
    /\ all_returns = <<>>
    /\ portfolio_value = Zero
    /\ portfolio_values = <<>>
    /\ success = TRUE
    /\ year_failed = None

NoFrame == [year |-> 0, stocks_value |-> Zero, bonds_value |-> Zero,
            cash_value |-> Zero, cumulative_inflation |-> One,
            after_withdrawal |-> <<Zero, Zero, Zero>>,
            results |-> EmptyResults]

\* ------------------------------------------------------------------------
\* One trial, period by period
\* ------------------------------------------------------------------------
\* RetirementSimulation(portfolio, params): the dict is stored as given
Init ==
    /\ params \in ParamSets
    /\ portfolio = NewPortfolio
    /\ HistIdle
    /\ FixedIdle
    /\ pc = "constructed"
    /\ sim = NoFrame
    /\ drawn = <<>>
    /\ mc_pc = "idle"
    /\ n_simulations = 0
    /\ all_simulations = <<>>
    /\ summary = NoSummary

\* simulate_single_retirement is entered: results and balances are set up
Begin ==
    /\ pc = "constructed"
    /\ pc' = "loop"
    /\ sim' = InitialFrame(params)
    /\ UNCHANGED <<hist_vars, fixed_vars, params, portfolio, drawn, mc_vars>>

\* one iteration of the loop over the years
Period ==
    /\ pc = "loop"
    /\ LoopContinues(params, sim)
    /\ \E r \in Draws :
          /\ sim' = LoopBody(params, sim, r)
          /\ drawn' = Append(drawn, r)
    /\ UNCHANGED <<hist_vars, fixed_vars, params, portfolio, pc, mc_vars>>

\* the range is exhausted: return results
Return ==
    /\ pc = "loop"
    /\ ~LoopContinues(params, sim)
    /\ pc' = "returned"
    /\ UNCHANGED <<hist_vars, fixed_vars, params, portfolio, sim, drawn, mc_vars>>

Next == Begin \/ Period \/ Return

Spec == Init /\ [][Next]_vars

\* ------------------------------------------------------------------------
\* MonteCarloSimulation.run
\* ------------------------------------------------------------------------
\* MonteCarloSimulation(portfolio, params) and run(n_simulations) entered
InitMC ==
    /\ params \in MCParamSets
    /\ portfolio = NewPortfolio
    /\ HistIdle
    /\ FixedIdle
    /\ n_simulations \in -1 .. MaxSims
    /\ mc_pc = "run"
    /\ all_simulations = <<>>
    /\ summary = NoSummary
    /\ pc = "idle"
    /\ sim = NoFrame
    /\ drawn = <<>>

\* a trial that writes its final value back into the shared params dict
RunTrialWritesParams ==
    /\ mc_pc = "run"
    /\ Len(all_simulations) < n_simulations
    /\ \E rows \in [1 .. params.simulation_years -> MCDraws] :
          /\ all_simulations' =
                Append(all_simulations,
                       simulate_single_retirement(params, rows))
          /\ drawn' = drawn \o rows
          /\ params' =
                IF params.simulation_years > 0
                THEN [params EXCEPT !.starting_portfolio =
                         simulate_single_retirement(params, rows)
                             .portfolio_values_end[params.simulation_years]]
                ELSE params
    /\ UNCHANGED <<hist_vars, fixed_vars, portfolio, pc, sim, mc_pc, n_simulations, summary>>

\* one iteration of the loop over the trials: a new RetirementSimulation
\* runs a trial on the rows it draws, and its results are appended
RunTrial ==
    /\ mc_pc = "run"
    /\ Len(all_simulations) < n_simulations
    /\ \E rows \in [1 .. params.simulation_years -> MCDraws] :
          /\ all_simulations' =
                Append(all_simulations,
                       simulate_single_retirement(params, rows))
          /\ drawn' = drawn \o rows
    /\ UNCHANGED <<hist_vars, fixed_vars, params, portfolio, pc, sim, mc_pc, n_simulations, summary>>

\* range(n_simulations) is empty for n_simulations <= 0: _compute_summary is
\* called with no trial and successes / n_sims divides by zero
SummaryZeroDivision ==
    /\ mc_pc = "run"
    /\ Len(all_simulations) >= n_simulations
    /\ Len(all_simulations) = 0
    /\ mc_pc' = "ZeroDivisionError"
    /\ UNCHANGED <<hist_vars, fixed_vars, params, portfolio, trial_vars, n_simulations, all_simulations, summary>>

\* _compute_summary with empty trials: portfolio_values_end[-1] fails
SummaryIndexError ==
    /\ mc_pc = "run"
    /\ Len(all_simulations) >= n_simulations
    /\ Len(all_simulations) > 0
    /\ params.simulation_years <= 0
    /\ mc_pc' = "IndexError"
    /\ UNCHANGED <<hist_vars, fixed_vars, params, portfolio, trial_vars, n_simulations, all_simulations, summary>>

\* _compute_summary returns and run returns (all_simulations, summary)
Summarize ==
    /\ mc_pc = "run"
    /\ Len(all_simulations) >= n_simulations
    /\ Len(all_simulations) > 0
    /\ params.simulation_years > 0
    /\ summary' = ComputeSummary(all_simulations, params.simulation_years)
    /\ mc_pc' = "returned"
    /\ UNCHANGED <<hist_vars, fixed_vars, params, portfolio, trial_vars, n_simulations, all_simulations>>

NextMC == RunTrial \/ SummaryZeroDivision \/ SummaryIndexError \/ Summarize

SpecMC == InitMC /\ [][NextMC]_vars

\* ------------------------------------------------------------------------
\* The historical data service and the bootstrap return model
\* ------------------------------------------------------------------------
\* the years and the asset lists of the requests
QueryYears ==
    {None, Some(0), Some(1871), Some(1872), Some(1873), Some(1874),
     Some(2013), Some(2025)}

AssetChoices == {{}, {"stocks", "inflation"}}

\* a file shiller.csv on disk, nothing loaded yet.  The API process, which
\* holds the service, and the return-model scripts, which call
\* bootstrap_returns, are separate programs: a behaviour follows one of them
InitHist ==
    /\ csv \in CsvFiles
    /\ svc_pc = "unloaded"
    /\ df = <<>>
    /\ query = NoQuery
    /\ response = NoResponse
    /\ boot_pc = "idle"
    /\ historical_data = <<>>
    /\ sampled_data = <<>>
    /\ FixedIdle
    /\ params = BaseParams
    /\ portfolio = NewPortfolio
    /\ pc = "idle"
    /\ sim = NoFrame
    /\ drawn = <<>>
    /\ mc_pc = "idle"
    /\ n_simulations = 0
    /\ all_simulations = <<>>
    /\ summary = NoSummary

\* HistoricalDataService(): the table is loaded at start-up
ServiceInit ==
    /\ svc_pc = "unloaded"
    /\ boot_pc = "idle"
    /\ csv.exists
    /\ df' = LoadData(csv.rows)
    /\ svc_pc' = "loaded"
    /\ UNCHANGED <<sim_vars, fixed_vars, csv, query, response, boot_pc, historical_data, sampled_data>>

\* _load_data re-raises FileNotFoundError
ServiceInitFileNotFound ==
    /\ svc_pc = "unloaded"
    /\ boot_pc = "idle"
    /\ ~csv.exists
    /\ svc_pc' = "FileNotFoundError"
    /\ UNCHANGED <<sim_vars, fixed_vars, csv, df, query, response, boot_pc, historical_data, sampled_data>>

\* a call of HistoricalDataService.get_returns
get_returns ==
    /\ svc_pc = "loaded"
    /\ \E start_year \in QueryYears, end_year \in QueryYears, assets \in AssetChoices :
          /\ query' = [start_year |-> start_year, end_year |-> end_year,
                       assets |-> assets, via |-> "service"]
          /\ response' = GetReturns(df, start_year, end_year, assets)
    /\ UNCHANGED <<sim_vars, fixed_vars, csv, svc_pc, df, boot_pc, historical_data, sampled_data>>

\* GET /historical/returns: the query parameters are validated, then
\* get_returns is called
get_historical_returns ==
    /\ svc_pc = "loaded"
    /\ \E start_year \in QueryYears, end_year \in QueryYears, assets \in AssetChoices :
          /\ query' = [start_year |-> start_year, end_year |-> end_year,
                       assets |-> assets, via |-> "router"]
          /\ response' =
                IF ValidYear(start_year) /\ ValidYear(end_year)
                THEN GetReturns(df, start_year, end_year, assets)
                ELSE ValidationErrorResponse
    /\ UNCHANGED <<sim_vars, fixed_vars, csv, svc_pc, df, boot_pc, historical_data, sampled_data>>

\* bootstrap_returns of models/historical_bootstrap.py: the table is loaded
\* and n_years rows are sampled from it with replacement
bootstrap_returns ==
    /\ svc_pc = "unloaded"
    /\ csv.exists
    /\ LoadHistoricalData(csv.rows) # <<>>
    /\ \E picks \in [1 .. BootYears -> 1 .. Len(LoadHistoricalData(csv.rows))] :
          sampled_data' = Sample(LoadHistoricalData(csv.rows), picks)
    /\ historical_data' = LoadHistoricalData(csv.rows)
    /\ boot_pc' = "returned"
    /\ UNCHANGED <<sim_vars, fixed_vars, csv, svc_pc, df, query, response>>

\* bootstrap_returns of historical_bootstrap.py, run when it is imported
bootstrap_returns_script ==
    /\ svc_pc = "unloaded"
    /\ csv.exists
    /\ LoadHistoricalDataNominal(csv.rows) # <<>>
    /\ \E picks \in [1 .. BootYears -> 1 .. Len(LoadHistoricalDataNominal(csv.rows))] :
          sampled_data' = Sample(LoadHistoricalDataNominal(csv.rows), picks)
    /\ historical_data' = LoadHistoricalDataNominal(csv.rows)
    /\ boot_pc' = "script_returned"
    /\ UNCHANGED <<sim_vars, fixed_vars, csv, svc_pc, df, query, response>>

\* either bootstrap_returns fails: read_csv raises FileNotFoundError, and
\* sample raises ValueError for a table without rows
bootstrap_returns_fails ==
    /\ svc_pc = "unloaded"
    /\ ~csv.exists \/ Until2012(csv.rows) = <<>>
    /\ boot_pc' = IF csv.exists THEN "ValueError" ELSE "FileNotFoundError"
    /\ historical_data' = <<>>
    /\ sampled_data' = <<>>
    /\ UNCHANGED <<sim_vars, fixed_vars, csv, svc_pc, df, query, response>>

NextHist ==
    \/ ServiceInit
    \/ ServiceInitFileNotFound
    \/ get_returns
    \/ get_historical_returns
    \/ bootstrap_returns
    \/ bootstrap_returns_script
    \/ bootstrap_returns_fails

SpecHist == InitHist /\ [][NextHist]_vars

\* ------------------------------------------------------------------------
\* The fixed-withdrawal simulator: Simulation.run
\* ------------------------------------------------------------------------
\* Simulation.__init__, the value in thousands
NewSimulation ==
    [initial_portfolio_value |-> Flt(750),
     allocation |-> [stocks |-> Dec(6, 10), bonds |-> Dec(4, 10)],
     withdrawal_rate |-> Dec(4, 100)]

\* rows [stocks, bonds] a return model can produce: the means, a flat year,
\* a total loss and a loss of 200%
FixedRows ==
    { <<Dec(1, 10), Dec(4, 100)>>, <<Zero, Zero>>,
      <<Flt(-1), Flt(-1)>>, <<Flt(-2), Flt(-2)>> }

\* self.return_model(): any number of rows
ReturnModel ==
    UNION { [1 .. n -> FixedRows] : n \in 0 .. MaxFixedYears }

\* withdrawal = self.initial_portfolio_value * self.withdrawal_rate
withdrawal ==
    fmul[NewSimulation.initial_portfolio_value, NewSimulation.withdrawal_rate]

\* the value after one period: the withdrawal, then the two gains
ValueAfter(value, returns) ==
    With(fsub[value, withdrawal], LAMBDA withdrawn :
    With(fmul[fmul[withdrawn, NewSimulation.allocation.stocks], returns[1]],
         LAMBDA stock_gains :
    With(fmul[fmul[withdrawn, NewSimulation.allocation.bonds], returns[2]],
         LAMBDA bond_gains :
        fadd[fadd[withdrawn, stock_gains], bond_gains])))

\* a slip: the failure is noted in every period that ends at or below 0
FailsNowOrAgain(succeeded, value) == FSign(value) <= 0

\* if success and portfolio_value <= 0
FailsNow(succeeded, value) == succeeded /\ FSign(value) <= 0

\* Simulation(return_model) is constructed
InitFixed ==
    /\ fixed_pc = "constructed"
    /\ all_returns = <<>>
    /\ portfolio_value = Zero
    /\ portfolio_values = <<>>
    /\ success = TRUE
    /\ year_failed = None
    /\ HistIdle
    /\ params = BaseParams
    /\ portfolio = NewPortfolio
    /\ pc = "idle"
    /\ sim = NoFrame
    /\ drawn = <<>>
    /\ mc_pc = "idle"
    /\ n_simulations = 0
    /\ all_simulations = <<>>
    /\ summary = NoSummary

\* run is entered: the returns are drawn and the locals set up
FixedBegin ==
    /\ fixed_pc = "constructed"
    /\ fixed_pc' = "loop"
    /\ all_returns' \in ReturnModel
    /\ portfolio_value' = NewSimulation.initial_portfolio_value
    /\ portfolio_values' = <<>>
    /\ success' = TRUE
    /\ year_failed' = None
    /\ UNCHANGED <<sim_vars, hist_vars>>

\* one iteration of the loop over the rows, with i = Len(portfolio_values)
FixedPeriod ==
    /\ fixed_pc = "loop"
    /\ Len(portfolio_values) < Len(all_returns)
    /\ portfolio_value' =
          ValueAfter(portfolio_value, all_returns[Len(portfolio_values) + 1])
    /\ IF FailsNow(success, portfolio_value')
       THEN /\ success' = FALSE
            /\ year_failed' = Some(Len(portfolio_values) + 1)
       ELSE UNCHANGED <<success, year_failed>>
    /\ portfolio_values' = Append(portfolio_values, portfolio_value')
    /\ UNCHANGED <<sim_vars, hist_vars, fixed_pc, all_returns>>

\* the rows are exhausted: the result dict is returned
FixedReturn ==
    /\ fixed_pc = "loop"
    /\ Len(portfolio_values) = Len(all_returns)
    /\ fixed_pc' = "returned"
    /\ UNCHANGED <<sim_vars, hist_vars, all_returns, portfolio_value, portfolio_values, success, year_failed>>

NextFixed == FixedBegin \/ FixedPeriod \/ FixedReturn

SpecFixed == InitFixed /\ [][NextFixed]_vars

\* ------------------------------------------------------------------------
\* Properties of one trial
\* ------------------------------------------------------------------------
Res == sim.results

Recorded == 1 .. Len(Res.years)

Started == pc \in {"loop", "returned"}

FAbs(a) == <<Abs(a[1]), a[2]>>

\* machine epsilon, 2^(1 - Prec)
Epsilon == <<1, 1 - Prec>>

\* a equals b to within the relative rounding error epsilon
WithinTolerance(a, b) == FLeq[FAbs(fsub[a, b]), fmul[FAbs(b), Epsilon]]

Sum3(a, b, c) == fadd[fadd[a, b], c]

WeightSum(p) ==
    Sum3(p.target_allocation.stocks, p.target_allocation.bonds,
         p.target_allocation.cash)

\* the weights sum to 1.0 within a few roundings
ValidAllocation(p) ==
    FLeq[FAbs(fsub[WeightSum(p), One]), fmul[Flt(4), Epsilon]]

Depleted(t) == FSign(Res.portfolio_values_end[t]) <= 0

\* C1: once a period ends with value <= 0 every later recorded start and end
\* value is 0, and no recorded total (start, end, stocks + bonds + cash) is
\* negative.
C1_ZeroAfterDepletion ==
    /\ \A t \in Recorded : \A u \in Recorded :
          (t < u /\ Depleted(t)) =>
              /\ Res.portfolio_values_start[u] = Zero
              /\ Res.portfolio_values_end[u] = Zero
    /\ \A t \in Recorded :
          /\ FSign(Res.portfolio_values_start[t]) >= 0
          /\ FSign(Res.portfolio_values_end[t]) >= 0
          /\ FSign(Sum3(Res.stocks_values[t], Res.bonds_values[t],
                        Res.cash_values[t])) >= 0

\* C2: a returned trial with horizon N > 0 has exactly N entries in every
\* per-period series, depleted or not.
C2_ExactlyNRecords ==
    (pc = "returned" /\ params.simulation_years > 0) =>
        LET N == params.simulation_years
        IN  /\ Len(Res.years) = N
            /\ Len(Res.ages) = N
            /\ Len(Res.portfolio_values_start) = N
            /\ Len(Res.portfolio_values_end) = N
            /\ Len(Res.spending_need) = N
            /\ Len(Res.ss_income) = N
            /\ Len(Res.parttime_income) = N
            /\ Len(Res.net_withdrawals) = N
            /\ Len(Res.withdrawal_rates) = N
            /\ Len(Res.inflation_rates) = N
            /\ Len(Res.stocks_values) = N
            /\ Len(Res.bonds_values) = N
            /\ Len(Res.cash_values) = N

C2_Witness ==
    /\ pc = "returned"
    /\ params.simulation_years = MaxYears
    /\ Len(Res.portfolio_values_end) = MaxYears
    /\ Depleted(1)
    /\ ~Res.success

\* C3: the success flag is true until the first period that ends with value
\* <= 0, false from then on (never set back to true), so at the end it is
\* false iff some period ended with value <= 0.
C3_SuccessFlag ==
    /\ [](Res.success <=> (\A t \in Recorded : ~Depleted(t)))
    /\ [][(Started /\ ~Res.success) => ~Res.success']_vars

C3_Witness ==
    /\ pc = "returned"
    /\ \E t \in Recorded : \E u \in Recorded :
          /\ t < u
          /\ Depleted(t)
          /\ \A v \in 1 .. t - 1 : ~Depleted(v)
          /\ FSign(Res.portfolio_values_end[u]) > 0
    /\ ~Res.success

\* C4: no simulation runs with target weights that do not sum to 1.0.
C4_WeightsSumToOne == Started => ValidAllocation(params)

\* C5: every recorded withdrawal rate is >= 0, is 0 when the start value is
\* 0, and is net withdrawal / start value when the start value is > 0.
C5_WithdrawalRate ==
    \A t \in Recorded :
        LET start == Res.portfolio_values_start[t]
            rate == Res.withdrawal_rates[t]
        IN  /\ FSign(rate) >= 0
            /\ start = Zero => rate = Zero
            /\ FSign(start) > 0 => rate = fdiv[Res.net_withdrawals[t], start]

C5_Witness ==
    /\ Len(Res.years) >= 3
    /\ FSign(Res.withdrawal_rates[1]) > 0
    /\ Res.portfolio_values_start[2] = Zero
    /\ FSign(Res.net_withdrawals[2]) > 0
    /\ Res.withdrawal_rates[2] = Zero

\* C6: at initialisation and after the rebalancing of every period each
\* balance equals total * target weight, so for a non-zero total balance /
\* total is the target weight (within floating tolerance), whatever the
\* returns and the withdrawal.
BalancedAt(stocks, bonds, cash, total) ==
    LET w == params.target_allocation
    IN  /\ stocks = fmul[total, w.stocks]
        /\ bonds = fmul[total, w.bonds]
        /\ cash = fmul[total, w.cash]
        /\ total # Zero =>
              /\ WithinTolerance(fdiv[stocks, total], w.stocks)
              /\ WithinTolerance(fdiv[bonds, total], w.bonds)
              /\ WithinTolerance(fdiv[cash, total], w.cash)

C6_Rebalanced ==
    Started =>
        /\ \A t \in Recorded :
              BalancedAt(Res.stocks_values[t], Res.bonds_values[t],
                         Res.cash_values[t], Res.portfolio_values_end[t])
        /\ BalancedAt(sim.stocks_value, sim.bonds_value, sim.cash_value,
                      IF Len(Res.years) = 0 THEN params.starting_portfolio
                      ELSE Res.portfolio_values_end[Len(Res.years)])

C6_Witness ==
    /\ Len(Res.years) >= 2
    /\ FSign(Res.net_withdrawals[2]) > 0
    /\ drawn[2] = MeanDraw
    /\ FSign(Res.portfolio_values_end[2]) > 0
    /\ sim.bonds_value # sim.stocks_value

\* C8: when the net withdrawal of period 0 is at least the starting
\* portfolio, period 0 ends with value <= 0 and marks the trial failed, the
\* value is 0 in every later period, and N records are still produced.
C8_ImmediateDepletion ==
    (/\ Len(Res.years) >= 1
     /\ FSign(params.starting_portfolio) > 0
     /\ FLeq[params.starting_portfolio, Res.net_withdrawals[1]]) =>
        /\ Depleted(1)
        /\ ~Res.success
        /\ \A u \in Recorded : u > 1 =>
              /\ Res.portfolio_values_start[u] = Zero
              /\ Res.portfolio_values_end[u] = Zero
        /\ pc = "returned" => Len(Res.years) = params.simulation_years

\* every row drawn so far is all zeros
AllZeroDraws == \A i \in 1 .. Len(drawn) : drawn[i] = ZeroDraw

ZeroSpendingRun ==
    /\ Started
    /\ FSign(params.starting_portfolio) > 0
    /\ params.annual_spending = Zero
    /\ ValidAllocation(params)
    /\ AllZeroDraws

\* the three initial balances add up to the starting portfolio exactly
ExactSplit(p) ==
    Sum3(fmul[p.starting_portfolio, p.target_allocation.stocks],
         fmul[p.starting_portfolio, p.target_allocation.bonds],
         fmul[p.starting_portfolio, p.target_allocation.cash])
        = p.starting_portfolio

\* C9 as claimed: with zero spending and all-zero returns every recorded
\* start and end value equals the starting portfolio P exactly, net
\* withdrawal and part-time income are 0, and the trial ends successful.
C9_FlatRunExact ==
    ZeroSpendingRun =>
        /\ \A t \in Recorded :
              /\ Res.portfolio_values_start[t] = params.starting_portfolio
              /\ Res.portfolio_values_end[t] = params.starting_portfolio
              /\ Res.net_withdrawals[t] = Zero
              /\ Res.parttime_income[t] = Zero
        /\ Res.success

\* C9 as amended: with zero spending and all-zero returns every period ends
\* with the value it started with, net withdrawal and part-time income are
\* 0 and the trial stays successful; start and end equal P exactly whenever
\* the three initial balances add up to P without rounding error.
C9_FlatRun ==
    ZeroSpendingRun =>
        /\ \A t \in Recorded :
              /\ Res.portfolio_values_end[t] = Res.portfolio_values_start[t]
              /\ Res.net_withdrawals[t] = Zero
              /\ Res.parttime_income[t] = Zero
              /\ ExactSplit(params) =>
                    Res.portfolio_values_start[t] = params.starting_portfolio
        /\ Res.success

C9_Witness ==
    /\ ZeroSpendingRun
    /\ ExactSplit(params)
    /\ params.starting_portfolio = Flt(750)
    /\ pc = "returned"
    /\ Len(Res.years) = MaxYears
    /\ Res.portfolio_values_end[MaxYears] = Flt(750)

\* C10: a horizon <= 0 never yields an empty result with success = true.
C10_NoSilentEmptySeries ==
    ~(/\ pc = "returned"
      /\ params.simulation_years <= 0
      /\ Len(Res.years) = 0
      /\ Res.success)

\* the cumulative inflation multiplier in force in the recorded period t:
\* the product of 1 + inflation rate over the periods before t
CumulativeInflation[t \in Nat] ==
    IF t <= 1 THEN One
    ELSE fmul[CumulativeInflation[t - 1],
              fadd[One, Res.inflation_rates[t - 1]]]

PreliminaryWithdrawal(t) ==
    Max0[fsub[Res.spending_need[t], Res.ss_income[t]]]

\* C20: the part-time income of a period is 0 or parttime_annual_income
\* times the cumulative inflation multiplier; it is not 0 only if part-time
\* income is enabled, age <= parttime_max_age, the start value is > 0 and
\* preliminary withdrawal / start value is strictly above the threshold.
C20_PartTimeTrigger ==
    \A t \in Recorded :
        /\ \/ Res.parttime_income[t] = Zero
           \/ Res.parttime_income[t] =
                 fmul[params.parttime_annual_income, CumulativeInflation[t]]
        /\ Res.parttime_income[t] # Zero =>
              /\ params.enable_parttime_income
              /\ Res.ages[t] <= params.parttime_max_age
              /\ FSign(Res.portfolio_values_start[t]) > 0
              /\ FLess[params.parttime_withdrawal_rate_threshold,
                       fdiv[PreliminaryWithdrawal(t),
                            Res.portfolio_values_start[t]]]
        /\ Res.ages[t] > params.parttime_max_age =>
              Res.parttime_income[t] = Zero

\* a rate equal to the threshold in period 0, without income, and a rate
\* above it in period 1, with the income adjusted for inflation
C20_Witness ==
    /\ Len(Res.years) >= 2
    /\ params.enable_parttime_income
    /\ Res.ages[2] <= params.parttime_max_age
    /\ fdiv[PreliminaryWithdrawal(1), Res.portfolio_values_start[1]] =
          params.parttime_withdrawal_rate_threshold
    /\ Res.parttime_income[1] = Zero
    /\ Res.parttime_income[2] # Zero
    /\ Res.parttime_income[2] # params.parttime_annual_income

\* C21: the multiplier starts at 1.0 and is multiplied by 1 + the period's
\* inflation rate exactly once per period; the spending need, the
\* Social-Security income and the part-time income of period t use the
\* multiplier as it stood before period t's draw, the product of
\* 1 + inflation rate over the periods before t, so that the spending need
\* of period 0 is the base annual spending.
C21_InflationOrder ==
    /\ [](Started =>
            /\ sim.cumulative_inflation =
                  CumulativeInflation[Len(Res.years) + 1]
            /\ Len(Res.years) = 0 => sim.cumulative_inflation = One
            /\ Len(Res.years) >= 1 =>
                  Res.spending_need[1] = params.annual_spending
            /\ \A t \in Recorded :
                  /\ Res.spending_need[t] =
                        fmul[params.annual_spending, CumulativeInflation[t]]
                  /\ Res.ss_income[t] \in
                        {Zero, fmul[params.ss_annual_benefit,
                                    CumulativeInflation[t]]}
                  /\ Res.parttime_income[t] \in
                        {Zero, fmul[params.parttime_annual_income,
                                    CumulativeInflation[t]]})
    /\ [][(pc = "loop" /\ pc' = "loop") =>
            sim'.cumulative_inflation =
                fmul[sim.cumulative_inflation,
                     fadd[One, drawn'[Len(drawn')][4]]]]_vars
    /\ [][(pc = "loop" /\ pc' = "returned") =>
            sim'.cumulative_inflation = sim.cumulative_inflation]_vars

\* three periods with inflation, Social Security paid in the last two
C21_Witness ==
    /\ Len(Res.years) = 3
    /\ drawn[1] = MeanDraw
    /\ drawn[2] = MeanDraw
    /\ Res.spending_need[1] = params.annual_spending
    /\ FLess[Res.spending_need[1], Res.spending_need[2]]
    /\ FLess[Res.spending_need[2], Res.spending_need[3]]
    /\ FLess[Zero, Res.ss_income[2]]
    /\ FLess[Res.ss_income[2], Res.ss_income[3]]
    /\ sim.cumulative_inflation # CumulativeInflation[3]

\* the three balances at the start of the recorded period t
BalancesBefore(t) ==
    IF t = 1
    THEN <<fmul[params.starting_portfolio, params.target_allocation.stocks],
           fmul[params.starting_portfolio, params.target_allocation.bonds],
           fmul[params.starting_portfolio, params.target_allocation.cash]>>
    ELSE <<Res.stocks_values[t - 1], Res.bonds_values[t - 1],
           Res.cash_values[t - 1]>>

\* | a - b | <= n * epsilon * scale
Near(a, b, n, scale) ==
    FLeq[FAbs(fsub[a, b]), fmul[fmul[Flt(n), Epsilon], FAbs(scale)]]

\* the withdrawal step of the last recorded period t scaled every balance
\* by 1 - W / V, or left them alone
ScaledBySameFactor(t) ==
    LET V == Res.portfolio_values_start[t]
        W == Res.net_withdrawals[t]
    IN  IF FSign(V) > 0 /\ FSign(W) > 0
        THEN \A x \in 1 .. 3 :
                sim.after_withdrawal[x] =
                    fmul[BalancesBefore(t)[x], fsub[One, fdiv[W, V]]]
        ELSE sim.after_withdrawal = BalancesBefore(t)

\* C22 as claimed: the withdrawal scales every balance by the same factor
\* 1 - W / V when V > 0 and W > 0, so that the ratio of any two balances is
\* unchanged and the total after the withdrawal equals V - W; otherwise no
\* balance is changed.
C22_ProportionalExact ==
    Len(Res.years) >= 1 =>
        LET t == Len(Res.years)
            V == Res.portfolio_values_start[t]
            W == Res.net_withdrawals[t]
            before == BalancesBefore(t)
            after == sim.after_withdrawal
        IN  /\ ScaledBySameFactor(t)
            /\ (FSign(V) > 0 /\ FSign(W) > 0) =>
                  /\ Sum3(after[1], after[2], after[3]) = fsub[V, W]
                  /\ \A x \in 1 .. 3 : \A y \in 1 .. 3 :
                        (before[y] # Zero /\ after[y] # Zero) =>
                            fdiv[after[x], after[y]] =
                                fdiv[before[x], before[y]]

\* C22 as amended: the same, the ratio of two balances and the total after
\* the withdrawal being kept to within a few rounding errors (of the ratio,
\* and of | V | + | W |) instead of exactly.
C22_Proportional ==
    Len(Res.years) >= 1 =>
        LET t == Len(Res.years)
            V == Res.portfolio_values_start[t]
            W == Res.net_withdrawals[t]
            before == BalancesBefore(t)
            after == sim.after_withdrawal
        IN  /\ ScaledBySameFactor(t)
            /\ (FSign(V) > 0 /\ FSign(W) > 0) =>
                  /\ Near(Sum3(after[1], after[2], after[3]), fsub[V, W], 8,
                          fadd[FAbs(V), FAbs(W)])
                  /\ \A x \in 1 .. 3 : \A y \in 1 .. 3 :
                        (before[y] # Zero /\ after[y] # Zero) =>
                            Near(fdiv[after[x], after[y]],
                                 fdiv[before[x], before[y]], 4,
                                 fdiv[before[x], before[y]])

\* a withdrawal in the second period, from balances that took returns
C22_Witness ==
    /\ Len(Res.years) = 2
    /\ drawn[1] = MeanDraw
    /\ FSign(Res.portfolio_values_start[2]) > 0
    /\ FSign(Res.net_withdrawals[2]) > 0
    /\ sim.after_withdrawal # BalancesBefore(2)
    /\ FLess[Zero, sim.after_withdrawal[3]]
    /\ FLess[sim.after_withdrawal[3], sim.after_withdrawal[1]]

\* C23: the net withdrawal of every period is max(0, spending need - SS
\* income - part-time income), never negative and never above the spending
\* need; when the two incomes exceed the need it is 0, the withdrawal step
\* leaves the balances alone and the end value is the balances with their
\* returns, the surplus added nowhere.
C23_NetWithdrawal ==
    /\ \A t \in Recorded :
          /\ Res.net_withdrawals[t] =
                Max0[fsub[fsub[Res.spending_need[t], Res.ss_income[t]],
                          Res.parttime_income[t]]]
          /\ FSign(Res.net_withdrawals[t]) >= 0
          /\ FLeq[Res.net_withdrawals[t], Res.spending_need[t]]
          /\ FLess[Res.spending_need[t],
                   fadd[Res.ss_income[t], Res.parttime_income[t]]] =>
                Res.net_withdrawals[t] = Zero
    /\ Len(Res.years) >= 1 =>
          LET t == Len(Res.years)
              before == BalancesBefore(t)
          IN  Res.net_withdrawals[t] = Zero =>
                /\ sim.after_withdrawal = before
                /\ Res.portfolio_values_end[t] =
                      Sum3(fmul[before[1], fadd[One, drawn[t][1]]],
                           fmul[before[2], fadd[One, drawn[t][2]]],
                           fmul[before[3], fadd[One, drawn[t][3]]])

\* a Social-Security income above the spending need in the second period
C23_Witness ==
    /\ Len(Res.years) = 2
    /\ FSign(Res.spending_need[2]) > 0
    /\ FLess[Res.spending_need[2], Res.ss_income[2]]
    /\ Res.net_withdrawals[2] = Zero
    /\ FSign(Res.net_withdrawals[1]) > 0
    /\ drawn[2] = MeanDraw
    /\ FLess[Res.portfolio_values_start[2], Res.portfolio_values_end[2]]

\* C24: the Social-Security income of a period is 0 if the period's age,
\* retirement_age + period index, is below ss_start_age and ss_annual_benefit
\* times the period's cumulative inflation multiplier otherwise, in every
\* later period and also after the portfolio is depleted.
C24_SocialSecurity ==
    \A t \in Recorded :
        /\ Res.ages[t] = params.retirement_age + (t - 1)
        /\ Res.ss_income[t] =
              IF Res.ages[t] < params.ss_start_age
              THEN Zero
              ELSE fmul[params.ss_annual_benefit, CumulativeInflation[t]]
        /\ \A u \in Recorded :
              (u < t /\ Res.ages[u] >= params.ss_start_age) =>
                  FSign(Res.ss_income[t]) > 0

\* no income at 66, the portfolio lost in that period, the benefit paid at
\* 67 and, raised by inflation, at 68
C24_Witness ==
    /\ Len(Res.years) = 3
    /\ Res.ages[1] < params.ss_start_age
    /\ Res.ss_income[1] = Zero
    /\ Depleted(1)
    /\ Res.ages[2] = params.ss_start_age
    /\ Res.ss_income[2] = params.ss_annual_benefit
    /\ FLess[Res.ss_income[2], Res.ss_income[3]]

\* C25: the start value of period t + 1 equals the end value of period t,
\* and the start value of period 0 equals starting_portfolio: rebalancing
\* and the hand-over between periods neither create nor destroy value.
C25_ValueHandedOver ==
    /\ Len(Res.years) >= 1 =>
          Res.portfolio_values_start[1] = params.starting_portfolio
    /\ \A t \in Recorded :
          t + 1 \in Recorded =>
              Res.portfolio_values_start[t + 1] = Res.portfolio_values_end[t]

\* ------------------------------------------------------------------------
\* Properties of a Monte Carlo run
\* ------------------------------------------------------------------------
Failed == {i \in 1 .. Len(all_simulations) : ~all_simulations[i].success}

\* | x - n / d | <= 2^(-Prec) for a float x and integers n, d > 0
WithinHalfEpsilon(x, n, d) ==
    IF x[2] >= 0
    THEN Abs(x[1] * (2 ^ x[2]) * d - n) * (2 ^ Prec) <= d
    ELSE Abs(x[1] * d - n * (2 ^ (-x[2]))) * (2 ^ Prec) <= d * (2 ^ (-x[2]))

\* C7 as claimed: success_rate = (K - failed) / K, failure_rate = failed / K
\* and n_simulations = K, for the K >= 1 trial results summarised.
C7_RatesExact ==
    mc_pc = "returned" =>
        LET K == Len(all_simulations)
        IN  /\ summary.n_simulations = K
            /\ summary.success_rate = Rnd[K - Cardinality(Failed), K, 0]
            /\ summary.failure_rate = Rnd[Cardinality(Failed), K, 0]

\* C7 as amended: success_rate = (K - failed) / K and n_simulations = K;
\* failure_rate is 1 - success_rate, which is failed / K to within one
\* rounding error (2^-Prec) but not always the float nearest to failed / K.
C7_Rates ==
    mc_pc = "returned" =>
        LET K == Len(all_simulations)
        IN  /\ summary.n_simulations = K
            /\ summary.success_rate = Rnd[K - Cardinality(Failed), K, 0]
            /\ summary.failure_rate = fsub[One, summary.success_rate]
            /\ WithinHalfEpsilon(summary.failure_rate, Cardinality(Failed), K)

C7_Witness ==
    /\ mc_pc = "returned"
    /\ Len(all_simulations) = 3
    /\ Cardinality(Failed) = 1
    /\ summary.failure_rate # Rnd[1, 3, 0]

\* C11: a run with a trial count <= 0 is rejected as a configuration error
\* on entry: it never gets as far as _compute_summary, neither to return a
\* summary nor to fail inside the aggregation on the division by n_sims.
C11_TrialCountRejected ==
    n_simulations <= 0 => mc_pc \notin {"returned", "ZeroDivisionError"}

\* C12: in a returned summary the depletion-age statistics (median, mean,
\* earliest) are all None, never 0, when no trial failed, and are all numbers
\* when at least one trial failed.
C12_DepletionAgeAbsent ==
    mc_pc = "returned" =>
        LET d == summary.depletion_age
        IN  /\ Failed = {} =>
                  d.median = None /\ d.mean = None /\ d.earliest = None
            /\ Failed # {} =>
                  /\ Len(d.median) = 1 /\ d.median[1] \in Num
                  /\ Len(d.mean) = 1 /\ d.mean[1] \in Num
                  /\ Len(d.earliest) = 1 /\ d.earliest[1] \in Int

C12_Witness ==
    /\ mc_pc = "returned"
    /\ Len(all_simulations) >= 2
    /\ Failed = {}
    /\ summary.depletion_age.median = None

\* the k-th failed trial, in the order of the run
KthFailed(k) ==
    CHOOSE i \in Failed : Cardinality({j \in Failed : j <= i}) = k

\* the index (from 0) of the first period of trial i that ends with value <= 0
FirstDepletedPeriod(i) ==
    CHOOSE t \in 0 .. params.simulation_years - 1 :
        /\ FSign(all_simulations[i].portfolio_values_end[t + 1]) <= 0
        /\ \A u \in 0 .. t - 1 :
              FSign(all_simulations[i].portfolio_values_end[u + 1]) > 0

\* C13: the list of depletion ages has one entry per failed trial, in the
\* order of the trials, and none for a successful trial; the entry of a
\* failed trial is retirement_age + t for the first period t of that trial
\* that ends with value <= 0; the summary's earliest age is their minimum.
C13_DepletionAges ==
    mc_pc = "returned" =>
        LET depletion_ages == DepletionAges(all_simulations)
        IN  /\ Len(depletion_ages) = Cardinality(Failed)
            /\ \A k \in 1 .. Cardinality(Failed) :
                  depletion_ages[k] =
                      params.retirement_age + FirstDepletedPeriod(KthFailed(k))
            /\ \A i \in Failed :
                  /\ summary.depletion_age.earliest[1] <=
                        params.retirement_age + FirstDepletedPeriod(i)
                  /\ \E j \in Failed :
                        summary.depletion_age.earliest[1] =
                            params.retirement_age + FirstDepletedPeriod(j)

\* two failed trials depleted in different periods and a successful one
C13_Witness ==
    /\ mc_pc = "returned"
    /\ Cardinality(Failed) >= 2
    /\ Cardinality(Failed) < Len(all_simulations)
    /\ \E i \in Failed : \E j \in Failed :
          /\ FirstDepletedPeriod(i) < FirstDepletedPeriod(j)
          /\ FSign(all_simulations[i].portfolio_values_end[
                  params.simulation_years]) <= 0
    /\ summary.depletion_age.median # None

\* the band values recomputed from the period-t end values alone
EndValues(t) ==
    [i \in 1 .. Len(all_simulations) |->
        all_simulations[i].portfolio_values_end[t]]

\* C14: for every period the bands across the trials are ordered,
\* p10 <= p25 <= median <= p75 <= p90, each band is computed from the end
\* values of that period only (it lies between their minimum and maximum and
\* is what the period's values alone give), and each band series has N
\* entries.
C14_PercentileBands ==
    mc_pc = "returned" =>
        LET b == summary.portfolio_over_time
            N == params.simulation_years
        IN  /\ Len(b.median) = N /\ Len(b.p10) = N /\ Len(b.p25) = N
            /\ Len(b.p75) = N /\ Len(b.p90) = N
            /\ \A t \in 1 .. N :
                  /\ FLeq[b.p10[t], b.p25[t]]
                  /\ FLeq[b.p25[t], b.median[t]]
                  /\ FLeq[b.median[t], b.p75[t]]
                  /\ FLeq[b.p75[t], b.p90[t]]
                  /\ FLeq[KthSmallest(EndValues(t), 1), b.p10[t]]
                  /\ FLeq[b.p90[t], KthSmallest(EndValues(t),
                                                Len(all_simulations))]
                  /\ b.p10[t] = Percentile(EndValues(t), 10)
                  /\ b.p25[t] = Percentile(EndValues(t), 25)
                  /\ b.median[t] = FMedian(EndValues(t))
                  /\ b.p75[t] = Percentile(EndValues(t), 75)
                  /\ b.p90[t] = Percentile(EndValues(t), 90)

\* a run whose last period has strictly increasing bands, unlike its first
C14_Witness ==
    /\ mc_pc = "returned"
    /\ Len(all_simulations) >= 2
    /\ params.simulation_years = MaxMCYears
    /\ LET b == summary.portfolio_over_time
       IN  /\ FLess[b.p10[MaxMCYears], b.p25[MaxMCYears]]
           /\ FLess[b.p25[MaxMCYears], b.median[MaxMCYears]]
           /\ FLess[b.median[MaxMCYears], b.p75[MaxMCYears]]
           /\ FLess[b.p75[MaxMCYears], b.p90[MaxMCYears]]
           /\ b.p10[1] # b.p10[MaxMCYears]

\* the number of periods of trial i with a part-time income > 0
IncomeYears(i) ==
    Cardinality({t \in 1 .. params.simulation_years :
                    FLess[Zero, all_simulations[i].parttime_income[t]]})

\* C15: the count of supplemental-income years of each trial is the number
\* of its periods with part-time income > 0 (in 0..N), the largest count is
\* the summary's maximum, prob_any_parttime_work is the number of trials
\* with such a period divided by K, and with part-time income disabled the
\* counts and the probability are 0.
C15_SupplementalIncomeYears ==
    mc_pc = "returned" =>
        LET K == Len(all_simulations)
            years_working == YearsWorkingList(all_simulations)
        IN  /\ Len(years_working) = K
            /\ \A i \in 1 .. K :
                  /\ years_working[i] = IncomeYears(i)
                  /\ years_working[i] \in 0 .. params.simulation_years
                  /\ summary.years_working.max >= IncomeYears(i)
            /\ \E i \in 1 .. K : summary.years_working.max = IncomeYears(i)
            /\ summary.prob_any_parttime_work =
                  Rnd[Cardinality({i \in 1 .. K : IncomeYears(i) > 0}), K, 0]
            /\ ~params.enable_parttime_income =>
                  /\ \A i \in 1 .. K : years_working[i] = 0
                  /\ summary.years_working.max = 0
                  /\ summary.prob_any_parttime_work = Zero

\* trials with and without part-time income in one run
C15_Witness ==
    /\ mc_pc = "returned"
    /\ Len(all_simulations) = 3
    /\ Cardinality({i \in 1 .. 3 : IncomeYears(i) > 0}) = 2
    /\ summary.prob_any_parttime_work = Rnd[2, 3, 0]
    /\ summary.years_working.max >= 1

\* the rows that trial i drew
TrialRows(i) ==
    SubSeq(drawn, (i - 1) * params.simulation_years + 1,
           i * params.simulation_years)

AtOrBelowZero == {k \in 1 .. Len(portfolio_values) : FSign(portfolio_values[k]) <= 0}

\* C26: Simulation.run returns one portfolio value per row of returns;
\* failure_year is None exactly when success is true, and otherwise i + 1
\* for the first period index i whose value after returns is <= 0; once
\* set it is never overwritten, and every value is the previous one less
\* the same fixed withdrawal, with its gains, also after the failure.
C26_FailureYear ==
    /\ [](fixed_pc \in {"loop", "returned"} =>
            /\ fixed_pc = "returned" =>
                  Len(portfolio_values) = Len(all_returns)
            /\ (year_failed = None) <=> success
            /\ success <=> AtOrBelowZero = {}
            /\ ~success =>
                  \E k \in AtOrBelowZero :
                      /\ year_failed = Some(k)
                      /\ \A j \in AtOrBelowZero : k <= j
            /\ \A k \in 1 .. Len(portfolio_values) :
                  LET before == IF k = 1
                                THEN NewSimulation.initial_portfolio_value
                                ELSE portfolio_values[k - 1]
                      withdrawn == fsub[before, fmul[Flt(750), Dec(4, 100)]]
                  IN  portfolio_values[k] =
                          fadd[fadd[withdrawn,
                                    fmul[fmul[withdrawn, Dec(6, 10)],
                                         all_returns[k][1]]],
                               fmul[fmul[withdrawn, Dec(4, 10)],
                                    all_returns[k][2]]])
    /\ [][year_failed # None => year_failed' = year_failed]_vars

\* a failure in the first period, a value above 0 in the second and a value
\* below 0 again in the third, the failure year still the first
C26_Witness ==
    /\ fixed_pc = "returned"
    /\ Len(portfolio_values) >= 3
    /\ year_failed = Some(1)
    /\ FSign(portfolio_values[2]) > 0
    /\ FSign(portfolio_values[3]) < 0
    /\ ~success

\* ------------------------------------------------------------------------
\* Properties of the historical data
\* ------------------------------------------------------------------------
BootstrapReturned == boot_pc \in {"returned", "script_returned"}

\* C17: bootstrap_returns fails only for a table without rows; otherwise,
\* also for a table of fewer than n_years rows, it returns exactly n_years
\* rows, each of them a (stocks, bonds) row of the table, never the stocks
\* value of one year with the bonds value of another.
C17_BootstrapWithReplacement ==
    /\ boot_pc = "ValueError" => Until2012(csv.rows) = <<>>
    /\ BootstrapReturned =>
          /\ Len(sampled_data) = BootYears
          /\ \A k \in 1 .. BootYears :
                \E i \in 1 .. Len(historical_data) :
                    sampled_data[k] = historical_data[i]

\* a table of two rows, both sampled, one of them twice
C17_Witness ==
    /\ boot_pc = "returned"
    /\ Len(historical_data) = 2
    /\ Len(historical_data) < BootYears
    /\ Len(sampled_data) = BootYears
    /\ \E j \in 1 .. BootYears : \E k \in 1 .. BootYears :
          j # k /\ sampled_data[j] = sampled_data[k]
    /\ \E j \in 1 .. BootYears : \E k \in 1 .. BootYears :
          sampled_data[j] # sampled_data[k]

\* C18: a request answered by get_returns has count = number of rows > 0,
\* every row within the bounds asked for, and start_year and end_year the
\* smallest and the largest year of the rows; so a request that matches no
\* row (start_year > end_year, or bounds wholly outside the table) is
\* answered by an error.
C18_NoMatchRejected ==
    response.status = "ok" =>
        /\ response.count = Len(response.data)
        /\ response.count > 0
        /\ \A k \in 1 .. Len(response.data) :
              /\ query.start_year # None =>
                    response.data[k].year >= query.start_year[1]
              /\ query.end_year # None =>
                    response.data[k].year <= query.end_year[1]
              /\ response.start_year <= response.data[k].year
              /\ response.data[k].year <= response.end_year
        /\ \E k \in 1 .. Len(response.data) :
              response.data[k].year = response.start_year
        /\ \E k \in 1 .. Len(response.data) :
              response.data[k].year = response.end_year

\* the real returns of the first year of the file for an inflation of 0
FirstYearFilled ==
    <<csv.rows[1].return_on_s_and_p_composite,
      Percent(csv.rows[1].long_government_bond_yield)>>

\* C19: the first year of the price index has no inflation and so no row:
\* the table of the service has no row for it, and the table the bootstrap
\* model samples from has a row only for the years after it, in particular
\* not the first year's returns less an inflation of 0.
C19_NoFirstYearRow ==
    /\ svc_pc = "loaded" =>
          \A k \in 1 .. Len(df) :
              /\ df[k].year # csv.rows[1].year
              /\ df[k].inflation # NaN
    /\ BootstrapReturned =>
          Len(historical_data) < Len(Until2012(csv.rows))
    /\ boot_pc = "returned" => historical_data[1] # FirstYearFilled

====
